---- MODULE Spec2Model ----
(***************************************************************************)
(* SpectrumAnalyst (src/FreqWindow.cpp): the spectral-analysis engine.     *)
(*                                                                         *)
(* Floats are modelled on an integer grid.  The curve mProcessed is a      *)
(* function on 0..size-1, as the std::vector it models.  The transform     *)
(* kernels (PowerSpectrum, RealFFT, InverseRealFFT) and the window         *)
(* catalog (WindowFunc) are not part of FreqWindow.cpp: the input buffer   *)
(* is described by a signal name, and Transform gives, for a frame of that *)
(* signal, the value the kernels' pipeline leaves in out[i].               *)
(***************************************************************************)
EXTENDS Integers, Sequences, FiniteSets, TLC

VARIABLES
    mProcessed,   \* std::vector<float> mProcessed
    mRate,        \* double mRate
    mWindowSize,  \* size_t mWindowSize
    mAlg,         \* Algorithm mAlg
    ret,          \* what the last Calculate returned (FALSE before any call)
    yMin,         \* what the last Calculate stored through pYMin
    yMax,         \* what the last Calculate stored through pYMax
    windows,      \* the last Calculate's local int windows
    starts,       \* the values of start at which the last Calculate read a frame
    maxRead,      \* the largest index of data[] the last Calculate read, or -1
    outRead,      \* the largest index of out[] peak pruning read, or -1
    gauge,        \* the calls the last Calculate made on FreqGauge *progress
    lastReq,      \* the arguments of the last Calculate
    calls,        \* how many Calculate calls were made (counted where bounded)
    query,        \* the last query made of the curve since the last Calculate
    other,        \* a second SpectrumAnalyst, with a history of its own
    synced,       \* "no", or the last step gave both analysts the same request:
                  \* "same" if they were in equal states before it, else "differed"
    dialog        \* the FrequencyPlotDialog that owns the analyst as mAnalyst

vars == <<mProcessed, mRate, mWindowSize, mAlg, ret, yMin, yMax, windows,
          starts, maxRead, outRead, gauge, lastReq, calls, query, other, synced,
          dialog>>

----------------------------------------------------------------------------
(* Program constants *)

Spectrum == 0
Autocorrelation == 1
CubeRootAutocorrelation == 2
EnhancedAutocorrelation == 3
Cepstrum == 4
NumAlgorithms == 5

MinWindowSize == 32
MaxWindowSize == 65536
InitialYMin == 1000000
InitialYMax == -1000000
CepstrumIgnore == 4

\* log10(0): below every finite float
MinusInfinity == -1000000000
Infinity == 1000000000

\* pYMin / pYMax were not stored through by the call
Unwritten == "unwritten"

----------------------------------------------------------------------------
(* Bounds of the model *)

\* entries of the window-function catalog (NumWindowFuncs() of FFT.h)
NumWindowFuncs == 3
\* hops of windowSize/2 the longest input buffer holds beyond its first window
MaxFrames == 4
\* Calculate calls in the specification that counts them
MaxCalls == 1

----------------------------------------------------------------------------
(* Float arithmetic on the integer grid *)

Max(a, b) == IF a >= b THEN a ELSE b
Abs(a) == IF a >= 0 THEN a ELSE -a

\* a / b on floats: sign-symmetric, rounded toward zero on the grid;
\* x / 0 is +-inf (0 / 0, a NaN, is not modelled: it reads as 0)
FloatDiv(a, b) ==
    IF b = 0 THEN (IF a > 0 THEN Infinity ELSE IF a < 0 THEN MinusInfinity ELSE 0)
    ELSE IF a >= 0 THEN a \div b
    ELSE -((-a) \div b)

\* the least n with 10^(k/10) <= n, for k = 0..29: a table of 10*log10
DecibelSteps ==
    <<1, 2, 2, 2, 3, 4, 4, 6, 7, 8,
      10, 13, 16, 20, 26, 32, 40, 51, 64, 80,
      100, 126, 159, 200, 252, 317, 399, 502, 631, 795>>

\* 10 * log10(n) in whole decibels (rounded down); -inf for n = 0
RECURSIVE TenLog10(_)
TenLog10(n) ==
    IF n <= 0 THEN MinusInfinity
    ELSE IF n >= 1000 THEN 10 + TenLog10(n \div 10)
    ELSE Cardinality({k \in 1..30 : DecibelSteps[k] <= n}) - 1

----------------------------------------------------------------------------
(* The collaborators: window catalog and transform kernels *)

\* the sum of the coefficients WindowFunc(windowFunc, n, win) leaves in win[]
\* (0: rectangular, all ones; others taper to about half)
WindowSum(windowFunc, n) ==
    IF windowFunc = 0 THEN n ELSE (n * (windowFunc + 1)) \div (2 * windowFunc + 1)

Signals == {"silence", "rising", "falling", "peak", "valley", "sweep", "comb", "early"}

\* the contour of frame k of a signal at bin i, 0..15
Shape(sig, k, i) ==
    LET j == i % 16
    IN  CASE sig = "silence" -> 0
          [] sig = "rising"  -> j
          [] sig = "falling" -> 15 - j
          [] sig = "peak"    -> 9 - Abs(j - 9)
          [] sig = "valley"  -> Abs(j - 6) + 1
          [] sig = "sweep"   -> IF k % 2 = 0 THEN j ELSE 15 - j
          [] sig = "comb"    -> IF j % 2 = 0 THEN 3 + (j \div 2) ELSE 12 - (j \div 2)
          [] sig = "early"   -> IF j = 1 THEN 9 ELSE Abs(j - 4) + 2
          [] OTHER           -> 0

\* 1000 * sin(2 * pi * j / 128) for j = 0..127, rounded
SineTable ==
    <<
      0, 49, 98, 147, 195, 243, 290, 337,
      383, 428, 471, 514, 556, 596, 634, 672,
      707, 741, 773, 803, 831, 858, 882, 904,
      924, 942, 957, 970, 981, 989, 995, 999,
      1000, 999, 995, 989, 981, 970, 957, 942,
      924, 904, 882, 858, 831, 803, 773, 741,
      707, 672, 634, 596, 556, 514, 471, 428,
      383, 337, 290, 243, 195, 147, 98, 49,
      0, -49, -98, -147, -195, -243, -290, -337,
      -383, -428, -471, -514, -556, -596, -634, -672,
      -707, -741, -773, -803, -831, -858, -882, -904,
      -924, -942, -957, -970, -981, -989, -995, -999,
      -1000, -999, -995, -989, -981, -970, -957, -942,
      -924, -904, -882, -858, -831, -803, -773, -741,
      -707, -672, -634, -596, -556, -514, -471, -428,
      -383, -337, -290, -243, -195, -147, -98, -49>>
SineTableSize == 128
Sine(j) == SineTable[(j % SineTableSize) + 1]
Cosine(j) == Sine(j + SineTableSize \div 4)

\* the pure sines: "sine<b>" is data[m] = sin(2 * pi * b * m / 128), of
\* frequency b / 128 of the sample rate, b = 0..63
SineNames ==
    <<
      "sine0", "sine1", "sine2", "sine3", "sine4", "sine5", "sine6", "sine7",
      "sine8", "sine9", "sine10", "sine11", "sine12", "sine13", "sine14", "sine15",
      "sine16", "sine17", "sine18", "sine19", "sine20", "sine21", "sine22", "sine23",
      "sine24", "sine25", "sine26", "sine27", "sine28", "sine29", "sine30", "sine31",
      "sine32", "sine33", "sine34", "sine35", "sine36", "sine37", "sine38", "sine39",
      "sine40", "sine41", "sine42", "sine43", "sine44", "sine45", "sine46", "sine47",
      "sine48", "sine49", "sine50", "sine51", "sine52", "sine53", "sine54", "sine55",
      "sine56", "sine57", "sine58", "sine59", "sine60", "sine61", "sine62", "sine63">>
SineSignals == {SineNames[b] : b \in 1..Len(SineNames)}
SineOf(sig) == (CHOOSE b \in 1..Len(SineNames) : SineNames[b] = sig) - 1

\* the sum over n = 0..last of data[start + n] times the kernel of bin k at n,
\* the cosine (phase 32) or the sine (phase 0) of 2 * pi * k * n / windowSize;
\* the frame is the data under the rectangular window
RECURSIVE SineDot(_, _, _, _, _, _)
SineDot(b, start, k, windowSize, phase, last) ==
    IF last < 0 THEN 0
    ELSE Sine(b * (start + last))
            * Sine((SineTableSize \div windowSize) * k * last + phase)
         + SineDot(b, start, k, windowSize, phase, last - 1)

\* the power spectrum of a frame of sine b at bin k: the squared magnitude of
\* the discrete Fourier transform, on a grid of 1/16 (windowSize divides 128)
SinePower(b, start, windowSize, k) ==
    LET re == FloatDiv(SineDot(b, start, k, windowSize, SineTableSize \div 4,
                               windowSize - 1), 4000)
        im == FloatDiv(SineDot(b, start, k, windowSize, 0, windowSize - 1), 4000)
    IN  re * re + im * im

\* the power spectra of the first three frames, half a window apart, of
\* every sine under a window of 32 samples, worked out once
SinePowers ==
    [sig \in SineSignals |->
        [frame \in 0..2 |->
            [k \in 0..17 |-> SinePower(SineOf(sig), 16 * frame, 32, k)]]]

\* out[i] after the frame at data[start .. start + windowSize - 1] went
\* through the algorithm's kernels: a power (>= 0) for Spectrum, a signed
\* value for the autocorrelations and the cepstrum
Transform(alg, sig, start, half, i) ==
    LET s == Shape(sig, start \div half, i)
    IN  IF alg = Spectrum
        THEN (IF sig \in SineSignals
              THEN SinePowers[sig][start \div half][i]
              ELSE IF sig = "silence" THEN 0 ELSE 2 ^ s)
        ELSE 6 * (s - 5)

----------------------------------------------------------------------------
(* std::vector<float> *)

EmptyVector == [i \in {} |-> 0]
Size(v) == Cardinality(DOMAIN v)
\* v.resize(n): the elements kept, the new ones value-initialised
Resize(v, n) ==
    LET old == Size(v)
    IN  [i \in 0..(n - 1) |-> IF i < old THEN v[i] ELSE 0]

----------------------------------------------------------------------------
(* SpectrumAnalyst::SpectrumAnalyst *)

NewAnalyst ==
    [mProcessed |-> EmptyVector, mRate |-> 0, mWindowSize |-> 0, mAlg |-> Spectrum]

----------------------------------------------------------------------------
(* SpectrumAnalyst::Calculate *)

\* a variant that zeroes the cached rate and window size but keeps the curve
WipeKeepingCurve(eng) ==
    [eng EXCEPT !.mRate = 0, !.mWindowSize = 0]

\* "Wipe old data"
Wipe(eng) ==
    [eng EXCEPT !.mProcessed = Resize(@, 0), !.mRate = 0, !.mWindowSize = 0]

\* a variant whose upper limit of the window size is exclusive
ValidInputsBelowMax(alg, windowFunc, windowSize) ==
    /\ windowSize >= MinWindowSize
    /\ windowSize < MaxWindowSize
    /\ alg >= Spectrum
    /\ alg < NumAlgorithms
    /\ windowFunc >= 0
    /\ windowFunc < NumWindowFuncs

\* a variant that admits the window function one past the catalog
ValidInputsPastCatalog(alg, windowFunc, windowSize) ==
    /\ windowSize >= MinWindowSize
    /\ windowSize <= MaxWindowSize
    /\ alg >= Spectrum
    /\ alg < NumAlgorithms
    /\ windowFunc >= 0
    /\ windowFunc <= NumWindowFuncs

\* "Validate inputs"
ValidInputs(alg, windowFunc, windowSize) ==
    /\ windowSize >= MinWindowSize
    /\ windowSize <= MaxWindowSize
    /\ alg >= Spectrum
    /\ alg < NumAlgorithms
    /\ windowFunc >= 0
    /\ windowFunc < NumWindowFuncs

\* a variant that asks for half a window of samples only
EnoughDataForHalf(dataLen, windowSize) == ~(dataLen < windowSize \div 2)

\* a variant that lets a buffer one sample short of a window through
EnoughDataButOne(dataLen, windowSize) == ~(dataLen + 1 < windowSize)

\* the negation of: if (dataLen < windowSize) return false
EnoughData(dataLen, windowSize) == ~(dataLen < windowSize)

\* a variant that caches the rate and the window size but not the algorithm
RepopulateWithoutAlg(eng, req) ==
    [eng EXCEPT !.mRate = req.rate,
                !.mWindowSize = req.windowSize]

\* "Now repopulate"
Repopulate(eng, req) ==
    [eng EXCEPT !.mRate = req.rate,
                !.mWindowSize = req.windowSize,
                !.mAlg = req.alg]

\* for (i = 0; i < mWindowSize; i++) mProcessed[i] = 0.0f
ZeroFill(v, n) == [i \in 0..(Size(v) - 1) |-> IF i < n THEN 0 ELSE v[i]]

\* wss: 4 / (sum of win[])^2 if the sum is positive, else 1.0; in decibels
WindowScale(windowFunc, n) ==
    LET wss == WindowSum(windowFunc, n)
    IN  IF wss > 0 THEN TenLog10(4) - 2 * TenLog10(wss) ELSE 0

\* a variant that goes on while any sample is left
LoopWhileSamplesLeft(start, windowSize, dataLen) == start < dataLen

\* while (start + mWindowSize <= dataLen)
LoopCondition(start, windowSize, dataLen) == start + windowSize <= dataLen

\* a variant that adds the bin two further on
AccumulateTwoBinsOn(p, req, start, half) ==
    [i \in 0..(req.windowSize - 1) |->
        IF i < half THEN p[i] + Transform(req.alg, req.data, start, half, i + 2)
        ELSE p[i]]

\* mProcessed[i] += out[i] for i < half
Accumulate(p, req, start, half) ==
    [i \in 0..(req.windowSize - 1) |->
        IF i < half THEN p[i] + Transform(req.alg, req.data, start, half, i)
        ELSE p[i]]

\* a variant that tells the gauge after start has been advanced
WindowStepGaugeAfterAdvance(st, req, half) ==
    [start   |-> st.start + half,
     windows |-> st.windows + 1,
     starts  |-> Append(st.starts, st.start),
     maxRead |-> Max(st.maxRead, st.start + req.windowSize - 1),
     gauge   |-> IF req.progress
                 THEN Append(st.gauge, <<"SetValue", st.start + half>>)
                 ELSE st.gauge]

\* a variant that counts a window only when there is a gauge to tell
WindowStepCountingForGauge(st, req, half) ==
    [start   |-> st.start + half,
     windows |-> IF req.progress THEN st.windows + 1 ELSE st.windows,
     starts  |-> Append(st.starts, st.start),
     maxRead |-> Max(st.maxRead, st.start + req.windowSize - 1),
     gauge   |-> IF req.progress
                 THEN Append(st.gauge, <<"SetValue", st.start>>)
                 ELSE st.gauge]

\* one pass of the loop body, the curve apart: the frame is read, the gauge
\* told, start and windows advanced
WindowStep(st, req, half) ==
    [start   |-> st.start + half,
     windows |-> st.windows + 1,
     starts  |-> Append(st.starts, st.start),
     maxRead |-> Max(st.maxRead, st.start + req.windowSize - 1),
     gauge   |-> IF req.progress
                 THEN Append(st.gauge, <<"SetValue", st.start>>)
                 ELSE st.gauge]

RECURSIVE WindowLoop(_, _, _)
WindowLoop(st, req, half) ==
    IF LoopCondition(st.start, req.windowSize, req.dataLen)
    THEN WindowLoop(WindowStep(st, req, half), req, half)
    ELSE st

\* the curve after the passes k, k + 1, ... of the loop, begun from curve p:
\* pass k adds the transform of the frame at starts[k]
RECURSIVE AccumulateLoop(_, _, _, _, _)
AccumulateLoop(p, req, starts_, half, k) ==
    IF k > Len(starts_) THEN p
    ELSE AccumulateLoop(Accumulate(p, req, starts_[k], half), req, starts_, half, k + 1)

\* if (x > mYMax) mYMax = x; else if (x < mYMin) mYMin = x;  with x = p[i], i++
MinMaxStep(p, st) ==
    LET x == p[st.i]
    IN  [i   |-> st.i + 1,
         min |-> IF x > st.max THEN st.min ELSE IF x < st.min THEN x ELSE st.min,
         max |-> IF x > st.max THEN x ELSE st.max]

\* n passes of the min/max loop from st, in index order (the passes are
\* split in two runs, the first taken before the second, to bound the depth)
RECURSIVE MinMaxLoop(_, _, _)
MinMaxLoop(p, st, n) ==
    IF n <= 0 THEN st
    ELSE IF n = 1 THEN MinMaxStep(p, st)
    ELSE LET first == MinMaxLoop(p, st, n \div 2)
         IN  IF first.i = st.i + n \div 2
             THEN MinMaxLoop(p, first, n - n \div 2)
             ELSE first

\* case Spectrum: "Convert to decibels"
SpectrumPost(p, n, half, wss, nwin) ==
    LET scale == wss - TenLog10(nwin)
        q == [i \in 0..(n - 1) |->
                IF i < half
                THEN (IF p[i] <= 0 THEN MinusInfinity ELSE TenLog10(p[i]) + scale)
                ELSE p[i]]
        mm == MinMaxLoop(q, [i |-> 0, min |-> InitialYMin, max |-> InitialYMax], half)
    IN  [yMin |-> mm.min, yMax |-> mm.max, outRead |-> -1, mProcessed |-> q]

\* a variant that leaves the accumulated sums undivided
AutocorrelationPostUndivided(p, n, half, nwin) ==
    LET mm == MinMaxLoop(p, [i |-> 1, min |-> p[0], max |-> p[0]], half - 1)
    IN  [yMin |-> mm.min, yMax |-> mm.max, outRead |-> -1, mProcessed |-> p]

\* case Autocorrelation, CubeRootAutocorrelation
AutocorrelationPost(p, n, half, nwin) ==
    LET q == [i \in 0..(n - 1) |-> IF i < half THEN FloatDiv(p[i], nwin) ELSE p[i]]
        mm == MinMaxLoop(q, [i |-> 1, min |-> q[0], max |-> q[0]], half - 1)
    IN  [yMin |-> mm.min, yMax |-> mm.max, outRead |-> -1, mProcessed |-> q]

\* the largest index of out[] the pruning pass reads for bin i
PruneRead(i) == IF i % 2 = 0 THEN i \div 2 ELSE i \div 2 + 1

\* the largest of PruneRead(lo), ..., PruneRead(hi)
RECURSIVE MaxPruneRead(_, _)
MaxPruneRead(lo, hi) ==
    IF lo >= hi THEN PruneRead(lo)
    ELSE LET mid == (lo + hi) \div 2
         IN  Max(MaxPruneRead(lo, mid), MaxPruneRead(mid + 1, hi))

\* a variant without the second clip
EnhancedPostClippedOnce(p, n, half, nwin) ==
    LET q == [i \in 0..(n - 1) |-> IF i < half THEN FloatDiv(p[i], nwin) ELSE p[i]]
        clipped == [i \in 0..(n - 1) |-> IF i < half /\ q[i] < 0 THEN 0 ELSE q[i]]
        out == clipped
        pruned == [i \in 0..(n - 1) |->
                     IF i < half
                     THEN (IF i % 2 = 0
                           THEN clipped[i] - out[i \div 2]
                           ELSE clipped[i]
                                - FloatDiv(out[i \div 2] + out[i \div 2 + 1], 2))
                     ELSE clipped[i]]
        mm == MinMaxLoop(pruned, [i |-> 1, min |-> pruned[0], max |-> pruned[0]],
                         half - 1)
    IN  [yMin |-> mm.min, yMax |-> mm.max, outRead |-> MaxPruneRead(0, half - 1),
         mProcessed |-> pruned]

\* case EnhancedAutocorrelation: divide, clip, subtract the time-doubled
\* signal, clip again
EnhancedPost(p, n, half, nwin) ==
    LET q == [i \in 0..(n - 1) |-> IF i < half THEN FloatDiv(p[i], nwin) ELSE p[i]]
        clipped == [i \in 0..(n - 1) |-> IF i < half /\ q[i] < 0 THEN 0 ELSE q[i]]
        \* out[i] = mProcessed[i] for i < half
        out == clipped
        pruned == [i \in 0..(n - 1) |->
                     IF i < half
                     THEN (IF i % 2 = 0
                           THEN clipped[i] - out[i \div 2]
                           ELSE clipped[i]
                                - FloatDiv(out[i \div 2] + out[i \div 2 + 1], 2))
                     ELSE clipped[i]]
        r == [i \in 0..(n - 1) |-> IF i < half /\ pruned[i] < 0 THEN 0 ELSE pruned[i]]
        mm == MinMaxLoop(r, [i |-> 1, min |-> r[0], max |-> r[0]], half - 1)
    IN  [yMin |-> mm.min, yMax |-> mm.max, outRead |-> MaxPruneRead(0, half - 1),
         mProcessed |-> r]

\* a variant whose min/max scan takes in the edge bins
CepstrumPostWholeCurve(p, n, half, nwin) ==
    LET q == [i \in 0..(n - 1) |-> IF i < half THEN FloatDiv(p[i], nwin) ELSE p[i]]
        mm == MinMaxLoop(q, [i |-> 1, min |-> q[0], max |-> q[0]], half - 1)
    IN  [yMin |-> mm.min, yMax |-> mm.max, outRead |-> -1, mProcessed |-> q]

\* case Cepstrum: "Find min/max, ignoring first and last few values"
CepstrumPost(p, n, half, nwin) ==
    LET q == [i \in 0..(n - 1) |-> IF i < half THEN FloatDiv(p[i], nwin) ELSE p[i]]
        ignore == CepstrumIgnore
        mm == MinMaxLoop(q, [i |-> ignore + 1, min |-> q[ignore], max |-> q[ignore]],
                         half - ignore - (ignore + 1))
    IN  [yMin |-> mm.min, yMax |-> mm.max, outRead |-> -1, mProcessed |-> q]

\* the switch (alg) after the loop
\* (p is mProcessed, n its size)
PostProcess(alg, p, n, half, wss, nwin) ==
    CASE alg = Spectrum -> SpectrumPost(p, n, half, wss, nwin)
      [] alg \in {Autocorrelation, CubeRootAutocorrelation} ->
            AutocorrelationPost(p, n, half, nwin)
      [] alg = EnhancedAutocorrelation -> EnhancedPost(p, n, half, nwin)
      [] alg = Cepstrum -> CepstrumPost(p, n, half, nwin)
      [] OTHER -> [yMin |-> InitialYMin, yMax |-> InitialYMax, outRead |-> -1,
                   mProcessed |-> p]

\* a return false: nothing is stored through pYMin / pYMax, no frame was read
Failure(eng) ==
    [ret |-> FALSE, yMin |-> Unwritten, yMax |-> Unwritten,
     windows |-> 0, starts |-> <<>>, maxRead |-> -1, outRead |-> -1, gauge |-> <<>>,
     eng |-> eng]

\* the whole of Calculate on analyst eng
\* req: [alg, windowFunc, windowSize, rate, data, dataLen, progress]
Calculate(eng, req) ==
    LET wiped == Wipe(eng)
    IN  IF ~ValidInputs(req.alg, req.windowFunc, req.windowSize) THEN Failure(wiped)
        ELSE IF ~EnoughData(req.dataLen, req.windowSize) THEN Failure(wiped)
        ELSE
          LET cached == Repopulate(wiped, req)
              half == cached.mWindowSize \div 2
              zeroed == ZeroFill(Resize(cached.mProcessed, cached.mWindowSize),
                                 cached.mWindowSize)
              wss == WindowScale(req.windowFunc, cached.mWindowSize)
              loop == WindowLoop(
                         [start |-> 0, windows |-> 0,
                          starts |-> <<>>, maxRead |-> -1,
                          gauge |-> IF req.progress
                                    THEN <<<<"SetRange", req.dataLen>>>>
                                    ELSE <<>>],
                         req, half)
              summed == AccumulateLoop(zeroed, req, loop.starts, half, 1)
              post == PostProcess(req.alg, summed, cached.mWindowSize, half,
                                  wss, loop.windows)
          IN  [ret |-> TRUE, yMin |-> post.yMin, yMax |-> post.yMax,
               windows |-> loop.windows, starts |-> loop.starts,
               maxRead |-> loop.maxRead, outRead |-> post.outRead,
               gauge |-> IF req.progress
                         THEN Append(loop.gauge, <<"Reset">>)
                         ELSE loop.gauge,
               eng |-> [cached EXCEPT !.mProcessed = post.mProcessed]]

\* a variant that reports the whole length of the vector
ProcessedSizeWhole(v) == Size(v)

\* SpectrumAnalyst::GetProcessedSize
ProcessedSize(v) == Size(v) \div 2
GetProcessedSize == ProcessedSize(mProcessed)

----------------------------------------------------------------------------
(* Positions on the curve *)

\* Positions (frequencies, lags, bin positions, the x of the cubic) and the
\* values the queries return are fixed-point numbers: Unit stands for 1.0.
\* Curve bins stay whole numbers.
Unit == 8

\* (int)(x): the fraction dropped, towards zero
ToInt(x) == FloatDiv(x, Unit)

\* products and sums that stop at the ends of the grid
SatMul(a, b) ==
    IF a = 0 \/ b = 0 THEN 0
    ELSE IF Abs(a) > Infinity \div Abs(b)
         THEN (IF (a > 0) = (b > 0) THEN Infinity ELSE MinusInfinity)
         ELSE a * b
SatAdd(a, b) == Max(MinusInfinity, -Max(-Infinity, -(a + b)))

\* mProcessed[i]; outside the vector the read is undefined and gives g
Read(p, i, g) == IF i >= 0 /\ i < Size(p) THEN p[i] ELSE g

----------------------------------------------------------------------------
(* SpectrumAnalyst::CubicInterpolate *)

\* six times the coefficients a, b, c of the cubic through (0, y0), (1, y1),
\* (2, y2), (3, y3); d is y0
CubicA(y0, y1, y2, y3) == -y0 + 3 * y1 - 3 * y2 + y3
\* a variant with a slip in the weight of y3
CubicBSlip(y0, y1, y2, y3) == 6 * y0 - 15 * y1 + 12 * y2 - 2 * y3
CubicB(y0, y1, y2, y3) == 6 * y0 - 15 * y1 + 12 * y2 - 3 * y3
\* a variant with a slip in the weight of y1
CubicCSlip(y0, y1, y2, y3) == -11 * y0 + 16 * y1 - 9 * y2 + 2 * y3
CubicC(y0, y1, y2, y3) == -11 * y0 + 18 * y1 - 9 * y2 + 2 * y3

\* a*xxx + b*xx + c*x + d at position x, in units of 1/Unit
CubicValue(y0, y1, y2, y3, x) ==
    LET t1 == SatAdd(FloatDiv(SatMul(CubicA(y0, y1, y2, y3), x), Unit),
                     CubicB(y0, y1, y2, y3))
        t2 == SatAdd(FloatDiv(SatMul(t1, x), Unit), CubicC(y0, y1, y2, y3))
        t3 == SatAdd(FloatDiv(SatMul(t2, x), Unit), 6 * y0)
    IN  FloatDiv(SatMul(t3, Unit), 6)

CubicInterpolate(y0, y1, y2, y3, x) == CubicValue(y0, y1, y2, y3, x)

----------------------------------------------------------------------------
(* SpectrumAnalyst::GetProcessedValue *)

\* bin0 / bin1 from freq0 / freq1
ToBin(eng, freq) ==
    IF eng.mAlg = Spectrum
    THEN FloatDiv(freq * eng.mWindowSize, eng.mRate)
    ELSE freq * eng.mRate

\* a variant whose upper clamp lets the base come within one bin of the end
ClampBaseNearEnd(ibin, size) ==
    LET low == IF ibin < 1 THEN 1 ELSE ibin
    IN  IF low >= size - 1 THEN Max(0, size - 2) ELSE low

\* if (ibin < 1) ibin = 1;
\* if (ibin >= GetProcessedSize() - 3) ibin = std::max(0, GetProcessedSize() - 4)
ClampBase(ibin, size) ==
    LET low == IF ibin < 1 THEN 1 ELSE ibin
    IN  IF low >= size - 3 THEN Max(0, size - 4) ELSE low

\* the branch binwidth < 1.0
CubicBranch(p, size, bin0, bin1, g) ==
    LET binmid == FloatDiv(bin0 + bin1, 2)
        ibin == ClampBase(ToInt(binmid) - 1, size)
    IN  [branch |-> "cubic",
         base   |-> ibin,
         reads  |-> ibin..(ibin + 3),
         value  |-> CubicInterpolate(Read(p, ibin, g), Read(p, ibin + 1, g),
                                     Read(p, ibin + 2, g), Read(p, ibin + 3, g),
                                     binmid - ibin * Unit)]

\* a variant that stops at size, one past the last bin
ClampHighAtSize(bin1, size) ==
    IF bin1 >= size * Unit THEN size * Unit ELSE bin1

\* if (bin0 < 0) bin0 = 0
ClampLow(bin0) == IF bin0 < 0 THEN 0 ELSE bin0
\* if (bin1 >= GetProcessedSize()) bin1 = GetProcessedSize() - 1
ClampHigh(bin1, size) == IF bin1 >= size * Unit THEN (size - 1) * Unit ELSE bin1

\* a variant that goes on while k <= hi
RECURSIVE WholeBinsInclusive(_, _, _, _)
WholeBinsInclusive(p, lo, hi, g) ==
    IF lo <= hi THEN Read(p, lo, g) + WholeBinsInclusive(p, lo + 1, hi, g) ELSE 0

\* the sum of mProcessed[k] for k from lo while k < hi
RECURSIVE WholeBins(_, _, _, _)
WholeBins(p, lo, hi, g) ==
    IF lo < hi THEN Read(p, lo, g) + WholeBins(p, lo + 1, hi, g) ELSE 0

\* a variant that gives the first bin its whole weight
IntegrateBranchFirstBinWhole(p, size, bin0, bin1, g) ==
    LET binwidth == bin1 - bin0
        lo == ClampLow(bin0)
        hi == ClampHigh(bin1, size)
        first == IF ToInt(hi) > ToInt(lo) THEN Read(p, ToInt(lo), g) * Unit ELSE 0
        whole == WholeBins(p, 1 + ToInt(lo), ToInt(hi), g) * Unit
        last == Read(p, ToInt(hi), g) * (hi - ToInt(hi) * Unit)
    IN  [branch |-> "integrate",
         base   |-> ToInt(lo),
         reads  |-> (IF ToInt(hi) > ToInt(lo) THEN {ToInt(lo)} ELSE {})
                    \cup ((1 + ToInt(lo))..(ToInt(hi) - 1))
                    \cup {ToInt(hi)},
         value  |-> FloatDiv((first + whole + last) * Unit, binwidth)]

\* the branch binwidth >= 1.0; the sum is kept in units of 1/Unit until the
\* division by binwidth
IntegrateBranch(p, size, bin0, bin1, g) ==
    LET binwidth == bin1 - bin0
        lo == ClampLow(bin0)
        hi == ClampHigh(bin1, size)
        first == IF ToInt(hi) > ToInt(lo)
                 THEN Read(p, ToInt(lo), g) * ((ToInt(lo) + 1) * Unit - lo)
                 ELSE 0
        whole == WholeBins(p, 1 + ToInt(lo), ToInt(hi), g) * Unit
        last == Read(p, ToInt(hi), g) * (hi - ToInt(hi) * Unit)
    IN  [branch |-> "integrate",
         base   |-> ToInt(lo),
         reads  |-> (IF ToInt(hi) > ToInt(lo) THEN {ToInt(lo)} ELSE {})
                    \cup ((1 + ToInt(lo))..(ToInt(hi) - 1))
                    \cup {ToInt(hi)},
         value  |-> FloatDiv((first + whole + last) * Unit, binwidth)]

\* the whole of GetProcessedValue on analyst eng; g is what a read outside the
\* vector gives
GetProcessedValue(eng, freq0, freq1, g) ==
    LET size == ProcessedSize(eng.mProcessed)
        bin0 == ToBin(eng, freq0)
        bin1 == ToBin(eng, freq1)
        binwidth == bin1 - bin0
        res == IF binwidth < Unit
               THEN CubicBranch(eng.mProcessed, size, bin0, bin1, g)
               ELSE IntegrateBranch(eng.mProcessed, size, bin0, bin1, g)
    IN  [op |-> "GetProcessedValue", freq0 |-> freq0, freq1 |-> freq1,
         bin0 |-> bin0, bin1 |-> bin1, branch |-> res.branch, base |-> res.base,
         reads |-> res.reads, value |-> res.value]

----------------------------------------------------------------------------
(* SpectrumAnalyst::CubicMaximize *)

\* the whole part of the square root of n >= 0, sought between lo and hi
RECURSIVE SqrtBetween(_, _, _)
SqrtBetween(n, lo, hi) ==
    IF lo >= hi THEN lo
    ELSE LET mid == (lo + hi + 1) \div 2
         IN  IF mid * mid <= n THEN SqrtBetween(n, mid, hi)
             ELSE SqrtBetween(n, lo, mid - 1)
Sqrt(n) == SqrtBetween(n, 0, 46340)

\* nine times db * db - 4 * da * dc, with da = 3a, db = 2b, dc = c
Discriminant(y0, y1, y2, y3) ==
    CubicB(y0, y1, y2, y3) * CubicB(y0, y1, y2, y3)
        - 3 * CubicA(y0, y1, y2, y3) * CubicC(y0, y1, y2, y3)

\* a variant that returns the other root of the derivative
CubicMaximizeOtherRoot(y0, y1, y2, y3) ==
    LET a == CubicA(y0, y1, y2, y3)
        b == CubicB(y0, y1, y2, y3)
        disc == Discriminant(y0, y1, y2, y3)
        root == Sqrt(disc * Unit * Unit)
        x1 == FloatDiv(-b * Unit + root, 3 * a)
    IN  IF disc < 0
        THEN [x |-> -Unit, finite |-> TRUE, written |-> FALSE, max |-> 0]
        ELSE IF a = 0
        THEN [x |-> 0, finite |-> FALSE, written |-> TRUE, max |-> 0]
        ELSE [x |-> x1, finite |-> TRUE, written |-> TRUE,
              max |-> CubicValue(y0, y1, y2, y3, x1)]

\* what CubicMaximize returns (x) and what it leaves in *max (max, when
\* written). With da = 0 the two roots are quotients by zero: the root
\* returned is not a finite number, and neither is *max.
CubicMaximize(y0, y1, y2, y3) ==
    LET a == CubicA(y0, y1, y2, y3)
        b == CubicB(y0, y1, y2, y3)
        disc == Discriminant(y0, y1, y2, y3)
        root == Sqrt(disc * Unit * Unit)
        x1 == FloatDiv(-b * Unit + root, 3 * a)
        x2 == FloatDiv(-b * Unit - root, 3 * a)
        \* dda * x1 + ddb = 2da * (-db + sqrt(discriminant)) / (2da) + db
        slope1 == root
        x == IF slope1 < 0 THEN x1 ELSE x2
    IN  IF disc < 0
        THEN [x |-> -Unit, finite |-> TRUE, written |-> FALSE, max |-> 0]
        ELSE IF a = 0
        THEN [x |-> 0, finite |-> FALSE, written |-> TRUE, max |-> 0]
        ELSE [x |-> x, finite |-> TRUE, written |-> TRUE,
              max |-> CubicValue(y0, y1, y2, y3, x)]

----------------------------------------------------------------------------
(* SpectrumAnalyst::FindPeak *)

\* float bestdist = 1000000;
FarAway == 1000000

\* float bestpeak = 0.0f; float bestValue = 0.0;
NoPeak == [bestpeak |-> 0, bestValue |-> 0]

\* thispeak from max
ToPosition(eng, max) ==
    IF eng.mAlg = Spectrum
    THEN FloatDiv(max * eng.mRate, eng.mWindowSize)
    ELSE FloatDiv(max, eng.mRate)

\* fabs(thispeak - xPos) < bestdist
Closer(dist, bestdist) == dist < bestdist

\* one round of the for loop at bin; st.broke is the bin at which the loop
\* was left by break, 0 while it was not; st.candidates lists the bins that
\* passed if (!nowUp && up), with what was made of them; st.reads holds the
\* indices of mProcessed read so far
FindPeakStep(eng, xPos, st, bin) ==
    LET p == eng.mProcessed
        nowUp == p[bin] > p[bin - 1]
        leftbin == bin - 2
        cm == CubicMaximize(p[leftbin], p[leftbin + 1], p[leftbin + 2],
                            p[leftbin + 3])
        valueAtMax == IF cm.written THEN cm.max ELSE 0
        thispeak == ToPosition(eng, leftbin * Unit + cm.x)
        dist == Abs(thispeak - xPos)
        taken == cm.finite /\ Closer(dist, st.bestdist)
        cand == [bin |-> bin, finite |-> cm.finite, written |-> cm.written,
                 thispeak |-> thispeak, valueAtMax |-> valueAtMax,
                 taken |-> taken]
    IN  IF ~nowUp /\ st.up
        THEN [up |-> nowUp,
              reads |-> st.reads \cup {bin - 1, bin} \cup (leftbin..(leftbin + 3)),
              bestpeak |-> IF taken THEN thispeak ELSE st.bestpeak,
              bestdist |-> IF taken THEN dist ELSE st.bestdist,
              bestValue |-> IF taken THEN valueAtMax ELSE st.bestValue,
              broke |-> IF taken /\ thispeak > xPos THEN bin ELSE 0,
              candidates |-> Append(st.candidates, cand)]
        ELSE [st EXCEPT !.up = nowUp, !.reads = st.reads \cup {bin - 1, bin}]

\* for (int bin = 3; bin < GetProcessedSize() - 1; bin++)
RECURSIVE FindPeakLoop(_, _, _, _, _)
FindPeakLoop(eng, xPos, st, bin, size) ==
    IF bin < size - 1 /\ st.broke = 0
    THEN FindPeakLoop(eng, xPos, FindPeakStep(eng, xPos, st, bin), bin + 1, size)
    ELSE st

\* FindPeak(xPos, pY) with pY given: peak is what is returned, value what is
\* written to *pY
FindPeak(eng, xPos) ==
    LET size == ProcessedSize(eng.mProcessed)
        first == [up |-> size > 1 /\ eng.mProcessed[1] > eng.mProcessed[0],
                  reads |-> IF size > 1 THEN {0, 1} ELSE {},
                  bestpeak |-> NoPeak.bestpeak, bestdist |-> FarAway * Unit,
                  bestValue |-> NoPeak.bestValue, broke |-> 0,
                  candidates |-> <<>>]
        last == IF size > 1 THEN FindPeakLoop(eng, xPos, first, 3, size)
                ELSE first
    IN  [op |-> "FindPeak", xPos |-> xPos, size |-> size,
         candidates |-> last.candidates, broke |-> last.broke,
         reads |-> last.reads,
         peak |-> last.bestpeak, value |-> last.bestValue]

----------------------------------------------------------------------------
(* FrequencyPlotDialog *)

\* dataLen > 10485760: only the first 10485760 samples are analysed
MaxDataLen == 10485760

\* the dialog as its constructor leaves it, with the size, algorithm and
\* window function read from the preferences. mData is "null" or names the
\* signal the buffer holds; pending counts the EVT_FREQWINDOW_RECALC events
\* queued; mouseIn is the condition under which PlotPaint looks for a peak;
\* bitmap, cursorText and peakText are what the handlers last drew and wrote;
\* drawn tells which of DrawPlot and PlotPaint ran last, whether it asked the
\* analyst for values, and the GetProcessedSize() it found
NewDialog(size, alg, func) ==
    [shown |-> FALSE, mData |-> "null", mDataLen |-> 0, mRate |-> 0,
     mWindowSize |-> size, mAlg |-> alg, mFunc |-> func, pending |-> 0,
     mouseIn |-> FALSE, bitmap |-> "none", cursorText |-> "", peakText |-> "",
     drawn |-> [by |-> "none", queried |-> FALSE, size |-> 0]]

ClosedDialog == NewDialog(128, Spectrum, 0)

\* no wave track is selected
NoSelection == [rate |-> 0, data |-> "none", len |-> 0]

\* GetAudio() with the selection sel of the project
GetAudio(d, sel) ==
    IF sel = NoSelection
    THEN [d EXCEPT !.mData = "null", !.mDataLen = 0]
    ELSE [d EXCEPT !.mRate = sel.rate,
                   !.mDataLen = IF sel.len > MaxDataLen THEN MaxDataLen ELSE sel.len,
                   !.mData = sel.data]

\* if (!mData || mDataLen < mWindowSize)
NothingToPlot(d) == d.mData = "null" \/ d.mDataLen < d.mWindowSize

\* DrawPlot() while the analyst is eng: the empty plot, with the message if
\* the data are too short, or the curve from GetProcessedValue per pixel
DrawPlot(d, eng) ==
    LET size == ProcessedSize(eng.mProcessed)
    IN  IF NothingToPlot(d) \/ size = 0
        THEN [d EXCEPT !.bitmap = IF d.mDataLen < d.mWindowSize
                                  THEN "message" ELSE "background",
                       !.drawn = [by |-> "DrawPlot", queried |-> FALSE,
                                  size |-> size]]
        ELSE [d EXCEPT !.bitmap = "plot",
                       !.drawn = [by |-> "DrawPlot", queried |-> TRUE,
                                  size |-> size]]

\* PlotPaint(event) while the analyst is eng, the mouse at xPos and the pixel
\* xStep wide; g is what a read outside the vector gives
PlotPaint(d, eng, xPos, xStep, g) ==
    LET size == ProcessedSize(eng.mProcessed)
        found == FindPeak(eng, xPos)
        value == IF size > 0
                 THEN GetProcessedValue(eng, xPos, xPos + xStep, g).value
                 ELSE g
    IN  IF NothingToPlot(d)
        THEN [d EXCEPT !.drawn = [by |-> "PlotPaint", queried |-> FALSE,
                                  size |-> size]]
        ELSE IF d.mouseIn
        THEN [d EXCEPT !.cursorText = value, !.peakText = found.peak,
                       !.drawn = [by |-> "PlotPaint", queried |-> TRUE,
                                  size |-> size]]
        ELSE [d EXCEPT !.cursorText = "", !.peakText = "",
                       !.drawn = [by |-> "PlotPaint", queried |-> FALSE,
                                  size |-> size]]

\* SendRecalcEvent()
SendRecalcEvent(d) == [d EXCEPT !.pending = @ + 1]

----------------------------------------------------------------------------
(* The state machine *)

\* no query made yet
NoQuery == [op |-> "none"]

NoRequest ==
    [alg |-> Spectrum, windowFunc |-> 0, windowSize |-> 0, rate |-> 0,
     data |-> "none", dataLen |-> 0, progress |-> FALSE]

\* a second analyst as one record
AnalystRecord(res) ==
    [mProcessed |-> res.eng.mProcessed, mRate |-> res.eng.mRate,
     mWindowSize |-> res.eng.mWindowSize, mAlg |-> res.eng.mAlg,
     ret |-> res.ret, yMin |-> res.yMin, yMax |-> res.yMax]

ThisAnalyst ==
    [mProcessed |-> mProcessed, mRate |-> mRate, mWindowSize |-> mWindowSize,
     mAlg |-> mAlg]

OtherAnalyst ==
    [mProcessed |-> other.mProcessed, mRate |-> other.mRate,
     mWindowSize |-> other.mWindowSize, mAlg |-> other.mAlg]

Init ==
    /\ mProcessed = NewAnalyst.mProcessed
    /\ mRate = NewAnalyst.mRate
    /\ mWindowSize = NewAnalyst.mWindowSize
    /\ mAlg = NewAnalyst.mAlg
    /\ ret = FALSE
    /\ yMin = Unwritten
    /\ yMax = Unwritten
    /\ windows = 0
    /\ starts = <<>>
    /\ maxRead = -1
    /\ outRead = -1
    /\ gauge = <<>>
    /\ lastReq = NoRequest
    /\ calls = 0
    /\ query = NoQuery
    /\ other = [mProcessed |-> NewAnalyst.mProcessed, mRate |-> NewAnalyst.mRate,
                mWindowSize |-> NewAnalyst.mWindowSize, mAlg |-> NewAnalyst.mAlg,
                ret |-> FALSE, yMin |-> Unwritten, yMax |-> Unwritten]
    /\ synced = "no"
    /\ dialog = ClosedDialog

\* this analyst takes the result of a Calculate
Becomes(res, req) ==
    /\ mProcessed' = res.eng.mProcessed
    /\ mRate' = res.eng.mRate
    /\ mWindowSize' = res.eng.mWindowSize
    /\ mAlg' = res.eng.mAlg
    /\ ret' = res.ret
    /\ yMin' = res.yMin
    /\ yMax' = res.yMax
    /\ windows' = res.windows
    /\ starts' = res.starts
    /\ maxRead' = res.maxRead
    /\ outRead' = res.outRead
    /\ gauge' = res.gauge
    /\ lastReq' = req
    /\ query' = NoQuery

\* mAnalyst->Calculate(...) on the one analyst
DoCalculate(req) ==
    /\ Becomes(Calculate(ThisAnalyst, req), req)
    /\ UNCHANGED <<calls, other, synced, dialog>>

\* the same, counted: at most MaxCalls calls are made
CountedCalculate(req) ==
    /\ calls < MaxCalls
    /\ calls' = calls + 1
    /\ Becomes(Calculate(ThisAnalyst, req), req)
    /\ UNCHANGED <<other, synced, dialog>>

\* Calculate on the second analyst
OtherCalculate(req) ==
    /\ other' = AnalystRecord(Calculate(OtherAnalyst, req))
    /\ synced' = "no"
    /\ UNCHANGED <<mProcessed, mRate, mWindowSize, mAlg, ret, yMin, yMax, windows,
                   starts, maxRead, outRead, gauge, lastReq, calls, query, dialog>>

\* Calculate on the first analyst alone, the second left as it is
ThisCalculate(req) ==
    /\ Becomes(Calculate(ThisAnalyst, req), req)
    /\ synced' = "no"
    /\ UNCHANGED <<calls, other, dialog>>

\* the same request given to both analysts
BothCalculate(req) ==
    /\ Becomes(Calculate(ThisAnalyst, req), req)
    /\ other' = AnalystRecord(Calculate(OtherAnalyst, req))
    /\ synced' = IF ThisAnalyst = OtherAnalyst THEN "same" ELSE "differed"
    /\ UNCHANGED <<calls, dialog>>

\* the same request given to the first analyst with a gauge and, without one,
\* to a second analyst in the state the first was in
WithAndWithoutGauge(req) ==
    /\ Becomes(Calculate(ThisAnalyst, [req EXCEPT !.progress = TRUE]),
               [req EXCEPT !.progress = TRUE])
    /\ other' = AnalystRecord(Calculate(ThisAnalyst, [req EXCEPT !.progress = FALSE]))
    /\ synced' = "gauge"
    /\ UNCHANGED <<calls, dialog>>

\* mAnalyst->GetProcessedValue(...), which the callers make only of an analyst
\* that holds a curve
DoGetProcessedValue(freq0, freq1, g) ==
    /\ GetProcessedSize > 0
    /\ query' = GetProcessedValue(ThisAnalyst, freq0, freq1, g)
    /\ UNCHANGED <<mProcessed, mRate, mWindowSize, mAlg, ret, yMin, yMax, windows,
                   starts, maxRead, outRead, gauge, lastReq, calls, other, synced,
                   dialog>>

\* CubicInterpolate(y0, y1, y2, y3, x) on the arguments drawn
DoCubicInterpolate ==
    /\ query.op = "arguments"
    /\ query' = [op |-> "CubicInterpolate", y0 |-> query.y0, y1 |-> query.y1,
                 y2 |-> query.y2, y3 |-> query.y3, x |-> query.x,
                 value |-> CubicInterpolate(query.y0, query.y1, query.y2,
                                            query.y3, query.x)]
    /\ UNCHANGED <<mProcessed, mRate, mWindowSize, mAlg, ret, yMin, yMax, windows,
                   starts, maxRead, outRead, gauge, lastReq, calls, other, synced,
                   dialog>>

\* CubicMaximize(y0, y1, y2, y3, &max) on the arguments drawn
DoCubicMaximize ==
    /\ query.op = "arguments"
    /\ query' = [op |-> "CubicMaximize", y0 |-> query.y0, y1 |-> query.y1,
                 y2 |-> query.y2, y3 |-> query.y3,
                 result |-> CubicMaximize(query.y0, query.y1, query.y2, query.y3)]
    /\ UNCHANGED <<mProcessed, mRate, mWindowSize, mAlg, ret, yMin, yMax, windows,
                   starts, maxRead, outRead, gauge, lastReq, calls, other, synced,
                   dialog>>

----------------------------------------------------------------------------
(* The requests the specifications draw from *)

Algorithms == Spectrum..(NumAlgorithms - 1)
Rates == {44100}

\* the buffer lengths tried with window size w:
\* one hop short of a window, one to three frames
FewFrames(w) == {w - 1, w, w + w \div 2, 2 * w}
\* one sample short, and exactly one window
Boundary(w) == {w - 1, w}
\* every length from one short of a window to MaxFrames hops beyond it
EveryLength(w) == (w - 1)..(w + MaxFrames * (w \div 2))
\* ample data
Ample(w) == {w, w + w \div 2, 2 * w}

\* the requests with the given choices; lens maps each window size tried to
\* the buffer lengths tried with it
RequestsOf(algs, funcs, lens, datas, progs) ==
    UNION {[alg : algs, windowFunc : funcs, windowSize : {w}, rate : Rates,
            data : datas, dataLen : lens[w], progress : progs] : w \in DOMAIN lens}

\* every algorithm on every signal
CurveRequests ==
    RequestsOf(Algorithms, {0}, [w \in {MinWindowSize} |-> FewFrames(w)],
               Signals, {FALSE})

\* every combination of a valid or invalid algorithm, window function, window
\* size and buffer length
ValidationRequests ==
    RequestsOf((Spectrum - 1)..NumAlgorithms, {-1, 0, NumWindowFuncs},
               [w \in {MinWindowSize - 1, MinWindowSize, MinWindowSize + 1,
                        MaxWindowSize + 1} |-> Boundary(w)],
               {"rising"}, {FALSE})

\* every buffer length, on even and odd window sizes
WindowRequests ==
    RequestsOf({Spectrum, Cepstrum}, {0},
               [w \in {MinWindowSize, MinWindowSize + 1, MinWindowSize + 2} |->
                   EveryLength(w)],
               {"sweep"}, {FALSE})

\* otherwise valid requests around both limits of the window size; at the
\* upper limit itself the first and the last algorithm, one signal and one
\* buffer length stand for all
LimitRequests ==
    {r \in RequestsOf(Algorithms, {0},
                      [w \in {MinWindowSize - 1, MinWindowSize, MaxWindowSize,
                               MaxWindowSize + 1} |-> Ample(w)],
                      {"silence", "rising", "falling"}, {FALSE}) :
        r.windowSize = MaxWindowSize =>
            /\ r.alg \in {Spectrum, Cepstrum}
            /\ r.data = "rising"
            /\ r.dataLen = MaxWindowSize}

\* a few requests, failing ones among them, for two analysts
PairRequests ==
    RequestsOf({Spectrum, EnhancedAutocorrelation, Cepstrum}, {0},
               [w \in {MinWindowSize} |-> Boundary(w)], {"rising", "peak"}, {FALSE})

\* requests with and without a gauge, failing ones among them
GaugeRequests ==
    RequestsOf({Spectrum, EnhancedAutocorrelation}, {0},
               [w \in {MinWindowSize, MinWindowSize + 1} |-> FewFrames(w)],
               {"sweep"}, {FALSE, TRUE})

\* sample rates that put whole and fractional bin positions on the grid
QueryRates == {1, MinWindowSize}

\* the curves that are queried, and a request that leaves no curve
QueryRequests ==
    [alg : Algorithms, windowFunc : {0},
     windowSize : {MinWindowSize}, rate : QueryRates,
     data : {"rising", "peak", "comb", "early"}, dataLen : Boundary(MinWindowSize),
     progress : {FALSE}]

\* frequencies or lags asked for: far below, below, at and inside the curve,
\* at its last bins, far above
QueryPositions ==
    {-1000 * Unit, -Unit - Unit \div 2, 0, Unit \div 2 + 1, 2 * Unit + Unit \div 2,
     7 * Unit + Unit \div 2, (MinWindowSize \div 2 - 1) * Unit - Unit \div 2,
     (MinWindowSize \div 2 - 1) * Unit, 1000 * Unit}

\* what a read outside the vector may give
Garbage == {0, 7}

\* the positions peaks are sought near: those above and one further away
\* than FarAway from every bin of the curve
PeakPositions == QueryPositions \cup {3 * Unit, 2 * FarAway * Unit}

----------------------------------------------------------------------------
(* Specifications *)

Next == \E req \in CurveRequests : DoCalculate(req)
Spec == Init /\ [][Next]_vars

NextValidation == \E req \in ValidationRequests : DoCalculate(req)
SpecValidation == Init /\ [][NextValidation]_vars

NextWindows == \E req \in WindowRequests : DoCalculate(req)
SpecWindows == Init /\ [][NextWindows]_vars

NextLimits == \E req \in LimitRequests : CountedCalculate(req)
SpecLimits == Init /\ [][NextLimits]_vars

NextPair ==
    \E req \in PairRequests :
        \/ ThisCalculate(req)
        \/ OtherCalculate(req)
        \/ BothCalculate(req)
SpecPair == Init /\ [][NextPair]_vars

NextGauge ==
    \E req \in GaugeRequests :
        \/ ThisCalculate(req)
        \/ WithAndWithoutGauge(req)
SpecGauge == Init /\ [][NextGauge]_vars

\* FindPeak(xPos, &bestValue) on whatever the analyst holds
DoFindPeak(xPos) ==
    /\ query' = FindPeak(ThisAnalyst, xPos)
    /\ UNCHANGED <<mProcessed, mRate, mWindowSize, mAlg, ret, yMin, yMax, windows,
                   starts, maxRead, outRead, gauge, lastReq, calls, other, synced,
                   dialog>>

NextQuery ==
    \/ \E req \in QueryRequests : DoCalculate(req)
    \/ \E freq0, freq1 \in QueryPositions, g \in Garbage :
          DoGetProcessedValue(freq0, freq1, g)
    \/ \E xPos \in PeakPositions : DoFindPeak(xPos)
SpecQuery == Init /\ [][NextQuery]_vars

\* the four samples the cubic is laid through
CubicSamples == {0, 3, 4, 10, 11, 30}

\* the x the cubic is evaluated at: the four points, between them, outside
\* them and far outside
CubicPositions ==
    {-1000 * Unit, -Unit, 0, Unit \div 2, Unit, Unit + 3, 2 * Unit, 3 * Unit,
     4 * Unit, 1000 * Unit}

CubicArguments ==
    [op : {"arguments"}, y0 : CubicSamples, y1 : CubicSamples, y2 : CubicSamples,
     y3 : CubicSamples, x : CubicPositions]

\* the cubic utility alone, on arguments drawn at the start
InitCubic ==
    /\ mProcessed = NewAnalyst.mProcessed
    /\ mRate = NewAnalyst.mRate
    /\ mWindowSize = NewAnalyst.mWindowSize
    /\ mAlg = NewAnalyst.mAlg
    /\ ret = FALSE
    /\ yMin = Unwritten
    /\ yMax = Unwritten
    /\ windows = 0
    /\ starts = <<>>
    /\ maxRead = -1
    /\ outRead = -1
    /\ gauge = <<>>
    /\ lastReq = NoRequest
    /\ calls = 0
    /\ query \in CubicArguments
    /\ other = [mProcessed |-> NewAnalyst.mProcessed, mRate |-> NewAnalyst.mRate,
                mWindowSize |-> NewAnalyst.mWindowSize, mAlg |-> NewAnalyst.mAlg,
                ret |-> FALSE, yMin |-> Unwritten, yMax |-> Unwritten]
    /\ synced = "no"
    /\ dialog = ClosedDialog

NextCubic ==
    \/ DoCubicInterpolate
    \/ DoCubicMaximize
SpecCubic == InitCubic /\ [][NextCubic]_vars

\* the Spectrum of every sine, of buffers of one to three frames
SineRequests ==
    [alg : {Spectrum}, windowFunc : {0}, windowSize : {MinWindowSize},
     rate : Rates, data : SineSignals,
     dataLen : FewFrames(MinWindowSize), progress : {FALSE}]

NextSine == \E req \in SineRequests : DoCalculate(req)
SpecSine == Init /\ [][NextSine]_vars

----------------------------------------------------------------------------
(* The dialog's event handlers *)

\* recalc events that may be queued at once
MaxPending == 1

\* the window sizes, algorithms and window functions chosen from
SizeChoices == {128, 256}
AlgChoices == {Spectrum, Autocorrelation}
FuncChoices == {0, 1}

\* what the project may have selected: nothing, or a track of some length
\* around the window sizes
Selections ==
    {NoSelection} \cup [rate : {128}, data : {"peak"}, len : {100, 200, 300}]

\* where the mouse is when the plot is painted, and the width of a pixel
PaintPositions == {Unit, 5 * Unit + 4}
PaintSteps == {Unit}

\* the dialog of any preferences, not yet shown
InitDialog ==
    /\ mProcessed = NewAnalyst.mProcessed
    /\ mRate = NewAnalyst.mRate
    /\ mWindowSize = NewAnalyst.mWindowSize
    /\ mAlg = NewAnalyst.mAlg
    /\ ret = FALSE
    /\ yMin = Unwritten
    /\ yMax = Unwritten
    /\ windows = 0
    /\ starts = <<>>
    /\ maxRead = -1
    /\ outRead = -1
    /\ gauge = <<>>
    /\ lastReq = NoRequest
    /\ calls = 0
    /\ query = NoQuery
    /\ other = [mProcessed |-> NewAnalyst.mProcessed, mRate |-> NewAnalyst.mRate,
                mWindowSize |-> NewAnalyst.mWindowSize, mAlg |-> NewAnalyst.mAlg,
                ret |-> FALSE, yMin |-> Unwritten, yMax |-> Unwritten]
    /\ synced = "no"
    /\ dialog \in {NewDialog(size, alg, func) :
                       size \in SizeChoices, alg \in AlgChoices, func \in FuncChoices}

\* Recalc() on the dialog d: the empty plot if there is nothing to plot,
\* else mAnalyst->Calculate(...) and the plot. wxYieldIfNeeded() comes before
\* Calculate has changed anything: the events it dispatches are steps taken
\* before this one.
Recalc(d) ==
    /\ IF NothingToPlot(d)
       THEN /\ dialog' = DrawPlot(d, ThisAnalyst)
            /\ UNCHANGED <<mProcessed, mRate, mWindowSize, mAlg, ret, yMin, yMax,
                           windows, starts, maxRead, outRead, gauge, lastReq,
                           query>>
       ELSE LET req == [alg |-> d.mAlg, windowFunc |-> d.mFunc,
                        windowSize |-> d.mWindowSize, rate |-> d.mRate,
                        data |-> d.mData, dataLen |-> d.mDataLen,
                        progress |-> TRUE]
                res == Calculate(ThisAnalyst, req)
            IN  /\ Becomes(res, req)
                /\ dialog' = DrawPlot(d, res.eng)
    /\ UNCHANGED <<calls, other, synced>>

\* the handlers that leave the analyst alone
DialogBecomes(d) ==
    /\ dialog' = d
    /\ UNCHANGED <<mProcessed, mRate, mWindowSize, mAlg, ret, yMin, yMax, windows,
                   starts, maxRead, outRead, gauge, lastReq, calls, query, other,
                   synced>>

\* Show(true) of the hidden dialog: GetAudio() and Recalc() right away
ShowDialog(sel) ==
    /\ ~dialog.shown
    /\ Recalc([GetAudio(dialog, sel) EXCEPT !.shown = TRUE])

\* Show(false), OnCloseWindow, OnCloseButton
HideDialog ==
    /\ dialog.shown
    /\ DialogBecomes([dialog EXCEPT !.shown = FALSE])

\* OnAlgChoice
OnAlgChoice(alg) ==
    /\ dialog.shown
    /\ dialog.pending < MaxPending
    /\ DialogBecomes(SendRecalcEvent([dialog EXCEPT !.mAlg = alg]))

\* OnSizeChoice
OnSizeChoice(size) ==
    /\ dialog.shown
    /\ dialog.pending < MaxPending
    /\ DialogBecomes(SendRecalcEvent([dialog EXCEPT !.mWindowSize = size]))

\* OnFuncChoice, after the choice control took the selection
OnFuncChoice(func) ==
    /\ dialog.shown
    /\ dialog.pending < MaxPending
    /\ DialogBecomes(SendRecalcEvent([dialog EXCEPT !.mFunc = func]))

\* OnReplot
OnReplot(sel) ==
    /\ dialog.shown
    /\ dialog.pending < MaxPending
    /\ DialogBecomes(SendRecalcEvent(GetAudio(dialog, sel)))

\* OnRecalc: a queued recalc event is delivered
OnRecalc ==
    /\ dialog.pending > 0
    /\ Recalc([dialog EXCEPT !.pending = @ - 1])

\* OnSize, OnPanScroller, OnZoomSlider, OnAxisChoice, OnGridOnOff: the plot
\* is drawn again
OnSize ==
    /\ dialog.shown
    /\ DialogBecomes(DrawPlot(dialog, ThisAnalyst))

\* PlotMouseEvent: the mouse moved into or out of the plot
PlotMouseEvent(inside) ==
    /\ dialog.shown
    /\ inside # dialog.mouseIn
    /\ DialogBecomes([dialog EXCEPT !.mouseIn = inside])

\* FreqPlot::OnPaint
OnPaint(xPos, xStep, g) ==
    /\ dialog.shown
    /\ DialogBecomes(PlotPaint(dialog, ThisAnalyst, xPos, xStep, g))

NextDialog ==
    \/ \E sel \in Selections : ShowDialog(sel)
    \/ HideDialog
    \/ \E alg \in AlgChoices : OnAlgChoice(alg)
    \/ \E size \in SizeChoices : OnSizeChoice(size)
    \/ \E func \in FuncChoices : OnFuncChoice(func)
    \/ \E sel \in Selections : OnReplot(sel)
    \/ OnRecalc
    \/ OnSize
    \/ \E inside \in BOOLEAN : PlotMouseEvent(inside)
    \/ \E xPos \in PaintPositions, xStep \in PaintSteps, g \in Garbage :
          OnPaint(xPos, xStep, g)
SpecDialog == InitDialog /\ [][NextDialog]_vars

----------------------------------------------------------------------------
(* Properties *)

\* a Calculate has been called on the analyst
Called == lastReq # NoRequest

\* C1: GetProcessedSize() is 0 while no Calculate has succeeded since
\* construction or since the last failed Calculate, and is exactly
\* windowSize / 2 (rounded down) of the most recent Calculate if that call
\* succeeded.
C1_ProcessedSizeIsHalfWindow ==
    GetProcessedSize = IF ret THEN lastReq.windowSize \div 2 ELSE 0

\* a successful Calculate with an odd window size, whose half is rounded down
C1_Witness ==
    /\ ret
    /\ lastReq.windowSize = MinWindowSize + 1
    /\ GetProcessedSize = MinWindowSize \div 2

\* C2: for each of the five algorithms and every otherwise valid request, a
\* Calculate with fewer samples than the window size fails and produces no
\* curve: GetProcessedSize() is 0 afterwards.
C2_ShortBufferFails ==
    (/\ Called
     /\ lastReq.alg \in {Spectrum, Autocorrelation, CubeRootAutocorrelation,
                         EnhancedAutocorrelation, Cepstrum}
     /\ lastReq.windowSize >= 32 /\ lastReq.windowSize <= 65536
     /\ lastReq.windowFunc >= 0 /\ lastReq.windowFunc < NumWindowFuncs
     /\ lastReq.dataLen < lastReq.windowSize)
    => (~ret /\ GetProcessedSize = 0)

\* an otherwise valid Cepstrum request one sample short of a window, refused
\* after an earlier success had cached the algorithm
C2_Witness ==
    /\ Called
    /\ lastReq.alg = Cepstrum
    /\ lastReq.windowSize = MinWindowSize
    /\ lastReq.windowFunc = 0
    /\ lastReq.dataLen = MinWindowSize - 1
    /\ ~ret
    /\ mAlg = EnhancedAutocorrelation

\* C3: Calculate fails whenever the window size is below 32 or above 65536,
\* however many samples are supplied (a full window or more among them), and
\* succeeds at the window sizes 32 and 65536 when the other preconditions
\* hold.
C3_WindowSizeLimits ==
    (/\ Called
     /\ lastReq.alg >= Spectrum /\ lastReq.alg < NumAlgorithms
     /\ lastReq.windowFunc >= 0 /\ lastReq.windowFunc < NumWindowFuncs
     /\ lastReq.dataLen >= lastReq.windowSize)
    => /\ (lastReq.windowSize < 32 \/ lastReq.windowSize > 65536) => ~ret
       /\ lastReq.windowSize \in {32, 65536} => ret

\* a success at the largest window size, with its full curve
C3_Witness ==
    /\ ret
    /\ lastReq.windowSize = 65536
    /\ lastReq.dataLen = 65536
    /\ Size(mProcessed) = 65536

\* C4: Calculate succeeds if and only if all four preconditions hold: the
\* window size is within 32..65536, the algorithm is one of the five, the
\* window function is within the catalog (not negative, below the count) and
\* there are at least windowSize samples; every failing call, one with an
\* unknown algorithm or an out-of-catalog window function among them, leaves
\* the curve empty.
C4_SuccessIffPreconditions ==
    Called =>
        /\ ret <=> (/\ 32 <= lastReq.windowSize /\ lastReq.windowSize <= 65536
                    /\ lastReq.alg \in {Spectrum, Autocorrelation,
                                        CubeRootAutocorrelation,
                                        EnhancedAutocorrelation, Cepstrum}
                    /\ 0 <= lastReq.windowFunc /\ lastReq.windowFunc < NumWindowFuncs
                    /\ lastReq.dataLen >= lastReq.windowSize)
        /\ ~ret => Size(mProcessed) = 0

\* a request refused for nothing but its window function, one past the catalog
C4_Witness ==
    /\ Called
    /\ ~ret
    /\ lastReq.windowFunc = NumWindowFuncs
    /\ lastReq.alg = Cepstrum
    /\ lastReq.windowSize = MinWindowSize
    /\ lastReq.dataLen = MinWindowSize
    /\ Size(mProcessed) = 0

\* C5: a failed Calculate that follows a successful one clears the analyst:
\* afterwards the curve has length zero and the cached rate and window size
\* are 0, so nothing of the previous curve is kept.
C5_FailureAfterSuccessClears ==
    [][(ret /\ ~ret') =>
          (Size(mProcessed') = 0 /\ mRate' = 0 /\ mWindowSize' = 0)]_vars

\* a failure after a success: the algorithm of the earlier successful call is
\* still cached, the curve, the rate and the window size are gone
C5_Witness ==
    /\ Called
    /\ ~ret
    /\ mAlg = Cepstrum
    /\ Size(mProcessed) = 0
    /\ mRate = 0
    /\ mWindowSize = 0

\* C6: a successful Calculate replaces the curve and the cached state
\* wholesale: two analysts with different histories of earlier successful or
\* failed calls, given the same request, end with the same curve, the same
\* reported min/max and the same cached algorithm, rate and window size, all
\* fixed by the request.
C6_ResultDependsOnRequestOnly ==
    (synced # "no" /\ ret) =>
        /\ other.ret
        /\ other.mProcessed = mProcessed
        /\ other.yMin = yMin
        /\ other.yMax = yMax
        /\ other.mAlg = mAlg /\ mAlg = lastReq.alg
        /\ other.mRate = mRate /\ mRate = lastReq.rate
        /\ other.mWindowSize = mWindowSize /\ mWindowSize = lastReq.windowSize

\* the same request has just succeeded on two analysts that differed before
C6_Witness ==
    /\ synced = "differed"
    /\ ret
    /\ other.ret
    /\ Size(mProcessed) = MinWindowSize

\* C7: a validated Calculate processes the windows at the start offsets 0,
\* windowSize/2, 2*(windowSize/2), ... and only those with
\* start + windowSize <= sampleCount: exactly
\* floor((sampleCount - windowSize) / (windowSize/2)) + 1 of them; the loop
\* ends, and no sample at an index >= sampleCount is read.
C7_WindowsProcessed ==
    ret =>
        LET half == lastReq.windowSize \div 2
        IN  /\ windows = (lastReq.dataLen - lastReq.windowSize) \div half + 1
            /\ Len(starts) = windows
            /\ \A k \in 1..windows :
                   /\ starts[k] = (k - 1) * half
                   /\ starts[k] + lastReq.windowSize <= lastReq.dataLen
            /\ windows * half + lastReq.windowSize > lastReq.dataLen
            /\ maxRead < lastReq.dataLen

\* an odd window size and a buffer that ends one sample short of a fourth
\* window: three windows, the last start a multiple of the rounded-down half
C7_Witness ==
    /\ ret
    /\ lastReq.windowSize = MinWindowSize + 1
    /\ lastReq.dataLen = 3 * (MinWindowSize \div 2) + MinWindowSize
    /\ windows = 3
    /\ starts = <<0, MinWindowSize \div 2, 2 * (MinWindowSize \div 2)>>
    /\ maxRead = 2 * (MinWindowSize \div 2) + MinWindowSize
    /\ maxRead < lastReq.dataLen

\* the smallest and the largest member of a non-empty set of numbers
SetMin(S) == CHOOSE m \in S : \A x \in S : m <= x
SetMax(S) == CHOOSE m \in S : \A x \in S : m >= x

\* the bins of the curve the analyst holds
Bins == {mProcessed[i] : i \in 0..(lastReq.windowSize \div 2 - 1)}

\* what the frames 1..k of request req add up to in bin i
RECURSIVE SumFrames(_, _, _)
SumFrames(req, i, k) ==
    IF k = 0 THEN 0
    ELSE SumFrames(req, i, k - 1)
         + Transform(req.alg, req.data, (k - 1) * (req.windowSize \div 2),
                     req.windowSize \div 2, i)

\* C8: after a successful Spectrum Calculate the reported minimum is the
\* smallest and the reported maximum the largest of the windowSize/2
\* converted bins, whatever the order of the bin values. The scan of the code
\* starts from the sentinels 1000000 / -1000000 and tests "below the minimum"
\* only for a bin that is not above the maximum, so this does not hold of it.
C8_SpectrumMinMaxAreTrue ==
    (ret /\ lastReq.alg = Spectrum) =>
        (yMin = SetMin(Bins) /\ yMax = SetMax(Bins))

\* a Spectrum curve that rises from bin to bin: every bin is a new maximum,
\* none is ever compared with the minimum, which stays at its sentinel
C8_Witness ==
    /\ ret
    /\ lastReq.alg = Spectrum
    /\ \A i \in 1..(lastReq.windowSize \div 2 - 1) : mProcessed[i - 1] < mProcessed[i]
    /\ yMax = SetMax(Bins)
    /\ yMin = InitialYMin
    /\ yMin > SetMax(Bins)

\* C9: after a successful Cepstrum Calculate the reported min/max are the
\* min/max over the bins 4 .. windowSize/2 - 5 alone, whatever the first four
\* and the last four bins hold; every bin, those eight included, is stored as
\* its accumulated sum divided by the number of windows.
C9_CepstrumIgnoresEdgeBins ==
    (ret /\ lastReq.alg = Cepstrum) =>
        LET half == lastReq.windowSize \div 2
            inner == {mProcessed[i] : i \in 4..(half - 5)}
        IN  /\ yMin = SetMin(inner)
            /\ yMax = SetMax(inner)
            /\ \A i \in 0..(half - 1) :
                   mProcessed[i] = FloatDiv(SumFrames(lastReq, i, windows), windows)

\* a Cepstrum curve over two windows whose smallest bin is among the first
\* four and whose largest among the last four: neither is reported
C9_Witness ==
    /\ ret
    /\ lastReq.alg = Cepstrum
    /\ windows = 2
    /\ mProcessed[0] < yMin
    /\ mProcessed[lastReq.windowSize \div 2 - 1] > yMax
    /\ mProcessed[0] = SetMin(Bins)
    /\ mProcessed[lastReq.windowSize \div 2 - 1] = SetMax(Bins)

\* C10: after a successful EnhancedAutocorrelation Calculate, with
\* c[i] = max(0, accumulated[i] / windowCount), bin i of the curve is
\* max(0, c[i] - c[i/2]) for even i and
\* max(0, c[i] - (c[(i-1)/2] + c[(i-1)/2 + 1]) / 2) for odd i, for every
\* i < windowSize/2; every index read on the right is below windowSize/2,
\* every bin is >= 0, and the reported min/max are the min/max of the bins.
C10_EnhancedPostProcessing ==
    (ret /\ lastReq.alg = EnhancedAutocorrelation) =>
        LET half == lastReq.windowSize \div 2
            c(i) == Max(0, FloatDiv(SumFrames(lastReq, i, windows), windows))
            final(i) == IF i % 2 = 0
                        THEN Max(0, c(i) - c(i \div 2))
                        ELSE Max(0, c(i) - FloatDiv(c((i - 1) \div 2)
                                                    + c((i - 1) \div 2 + 1), 2))
        IN  /\ \A i \in 0..(half - 1) :
                   /\ mProcessed[i] = final(i)
                   /\ mProcessed[i] >= 0
                   /\ i \div 2 < half
                   /\ i % 2 = 1 => (i - 1) \div 2 + 1 < half
            /\ outRead >= 0
            /\ outRead < half
            /\ yMin = SetMin(Bins)
            /\ yMax = SetMax(Bins)

\* an EnhancedAutocorrelation curve where each clip has acted: a negative
\* accumulated bin, a positive bin pruned to zero, and a bin left positive
C10_Witness ==
    /\ ret
    /\ lastReq.alg = EnhancedAutocorrelation
    /\ windows = 2
    /\ \E i \in 0..(lastReq.windowSize \div 2 - 1) :
           SumFrames(lastReq, i, windows) < 0
    /\ \E i \in 0..(lastReq.windowSize \div 2 - 1) :
           SumFrames(lastReq, i, windows) > 0 /\ mProcessed[i] = 0
    /\ yMin = 0
    /\ yMax > 0

\* C11: after a successful Autocorrelation or CubeRootAutocorrelation
\* Calculate, each bin i < windowSize/2 of the curve is the sum, over all the
\* windows processed, of the window's transform output at index i, divided by
\* the number of windows; the reported min/max are the plain min/max over
\* those windowSize/2 bins.
C11_AutocorrelationAverages ==
    (ret /\ lastReq.alg \in {Autocorrelation, CubeRootAutocorrelation}) =>
        /\ \A i \in 0..(lastReq.windowSize \div 2 - 1) :
               mProcessed[i] = FloatDiv(SumFrames(lastReq, i, windows), windows)
        /\ yMin = SetMin(Bins)
        /\ yMax = SetMax(Bins)

\* a CubeRootAutocorrelation curve averaged over three windows, its bins
\* differing from the sums, its extremes at the two ends of the curve
C11_Witness ==
    /\ ret
    /\ lastReq.alg = CubeRootAutocorrelation
    /\ windows = 3
    /\ \E i \in 0..(lastReq.windowSize \div 2 - 1) :
           mProcessed[i] # SumFrames(lastReq, i, windows)
    /\ yMin = mProcessed[0]
    /\ yMax = mProcessed[lastReq.windowSize \div 2 - 1]
    /\ yMin < yMax

\* the gauge was told SetRange(sampleCount) once and first, then SetValue once
\* per processed window, from 0 on, strictly increasing and never above
\* sampleCount, then Reset once and last
GaugeToldInOrder ==
    /\ Len(gauge) = windows + 2
    /\ gauge[1] = <<"SetRange", lastReq.dataLen>>
    /\ gauge[Len(gauge)] = <<"Reset">>
    /\ \A k \in 2..(Len(gauge) - 1) :
           /\ Len(gauge[k]) = 2
           /\ gauge[k][1] = "SetValue"
           /\ gauge[k][2] <= lastReq.dataLen
           /\ k = 2 => gauge[k][2] = 0
           /\ k > 2 => gauge[k - 1][2] < gauge[k][2]

\* C12 as stated: whenever a progress sink is supplied, a Calculate call
\* tells it SetRange(sampleCount) once, then one SetValue per processed
\* window with strictly increasing positions from 0, none above sampleCount,
\* then exactly one Reset, last. A call that fails validation returns before
\* SetRange and tells the sink nothing.
C12_EveryCallTellsGauge ==
    lastReq.progress => GaugeToldInOrder

\* C12, amended: a Calculate call that is given a progress sink and passes
\* validation tells it SetRange(sampleCount) once, then one SetValue per
\* processed window with strictly increasing positions from 0, none above
\* sampleCount, then exactly one Reset, last; a call that fails validation
\* tells the sink nothing, and a call without a sink tells nothing either.
C12_ValidatedCallTellsGauge ==
    /\ (lastReq.progress /\ ret) => GaugeToldInOrder
    /\ (lastReq.progress /\ ~ret) => gauge = <<>>
    /\ ~lastReq.progress => gauge = <<>>

\* three windows with a gauge: five notifications
C12_Witness ==
    /\ ret
    /\ lastReq.progress
    /\ windows = 3
    /\ gauge = <<<<"SetRange", 2 * MinWindowSize>>, <<"SetValue", 0>>,
                 <<"SetValue", MinWindowSize \div 2>>, <<"SetValue", MinWindowSize>>,
                 <<"Reset">>>>

\* C13: the progress sink does not affect the results: the same request
\* given, to analysts in the same state, with a sink and without one returns
\* the same value and leaves the same curve, the same reported min/max and the same cached algorithm, rate
\* and window size.
C13_GaugeDoesNotAffectResults ==
    synced = "gauge" =>
        /\ lastReq.progress
        /\ other.ret = ret
        /\ other.mProcessed = mProcessed
        /\ other.yMin = yMin
        /\ other.yMax = yMax
        /\ other.mAlg = mAlg
        /\ other.mRate = mRate
        /\ other.mWindowSize = mWindowSize

\* a successful call over two windows that told its gauge, beside the same
\* call without a gauge
C13_Witness ==
    /\ synced = "gauge"
    /\ ret
    /\ other.ret
    /\ windows = 2
    /\ Len(gauge) = 4
    /\ other.mProcessed = mProcessed
    /\ Size(mProcessed) = MinWindowSize + 1

\* a GetProcessedValue has been made of the curve the analyst holds
ValueQueried == query.op = "GetProcessedValue"

\* the sum of the bins lo..hi of the curve
RECURSIVE SumBins(_, _)
SumBins(lo, hi) == IF lo > hi THEN 0 ELSE mProcessed[lo] + SumBins(lo + 1, hi)

\* C14: on a valid curve (size = windowSize/2 >= 16) a GetProcessedValue
\* whose index span is narrower than one bin, zero and negative spans among
\* them, takes the cubic branch with a base index within 1..size-4; the four
\* bins it reads are base..base+3, all within 1..size-1, wherever the query
\* lies, far outside the curve included.
C14_CubicBaseClamped ==
    (ValueQueried /\ GetProcessedSize >= 16 /\ query.bin1 - query.bin0 < Unit) =>
        /\ query.branch = "cubic"
        /\ query.base >= 1
        /\ query.base <= GetProcessedSize - 4
        /\ query.reads = query.base..(query.base + 3)
        /\ query.reads \subseteq 1..(GetProcessedSize - 1)

\* a query of zero span far above the curve: the base is brought down to
\* size - 4
C14_Witness ==
    /\ ValueQueried
    /\ query.bin0 > 100 * GetProcessedSize * Unit
    /\ query.bin1 = query.bin0
    /\ query.branch = "cubic"
    /\ query.base = GetProcessedSize - 4
    /\ GetProcessedSize = 16

\* C15: the integration branch (index span >= 1) on a valid curve: for a
\* range [b0, b1] inside [0, size-1] the value is
\* (p[floor(b0)] * (floor(b0) + 1 - b0) + the sum of p[k] for
\* floor(b0) < k < floor(b1) + p[floor(b1)] * (b1 - floor(b1))) / (b1 - b0);
\* for whole endpoints a < b it is the arithmetic mean of p[a..b-1].
C15_IntegrationFormula ==
    (/\ ValueQueried
     /\ query.bin1 - query.bin0 >= Unit
     /\ query.bin0 >= 0
     /\ query.bin1 <= (GetProcessedSize - 1) * Unit) =>
        LET b0 == query.bin0
            b1 == query.bin1
            f0 == b0 \div Unit
            f1 == b1 \div Unit
        IN  /\ query.branch = "integrate"
            /\ query.value =
                  FloatDiv((mProcessed[f0] * ((f0 + 1) * Unit - b0)
                            + SumBins(f0 + 1, f1 - 1) * Unit
                            + mProcessed[f1] * (b1 - f1 * Unit)) * Unit, b1 - b0)
            /\ (b0 % Unit = 0 /\ b1 % Unit = 0) =>
                  query.value = FloatDiv(SumBins(f0, f1 - 1) * Unit, f1 - f0)

\* a range from the middle of one bin to the middle of a far one
C15_Witness ==
    /\ ValueQueried
    /\ query.branch = "integrate"
    /\ query.bin0 = 2 * Unit + Unit \div 2
    /\ query.bin1 = (GetProcessedSize - 2) * Unit + Unit \div 2
    /\ query.reads = 2..(GetProcessedSize - 2)
    /\ query.value # 0

\* C16: in the integration branch the index range is clamped to
\* [0, size-1]: for every range of span >= 1 bin on a valid curve, ranges
\* partly or wholly below index 0 or above index size-1 among them, every
\* curve index read is within 0..size-1. The code clamps bin0 from below and
\* bin1 from above only, so this does not hold of a range wholly below 0.
C16_IntegrationReadsInRange ==
    (ValueQueried /\ query.bin1 - query.bin0 >= Unit) =>
        query.reads \subseteq 0..(GetProcessedSize - 1)

\* a range wholly below index 0: bin1 = -1.5 is left as it is and
\* mProcessed[-1] is read
C16_Witness ==
    /\ ValueQueried
    /\ query.branch = "integrate"
    /\ query.bin0 = -1000 * Unit
    /\ query.bin1 = -Unit - Unit \div 2
    /\ query.reads = {-1}

\* C17 as stated: GetProcessedValue over the full curve range (index 0 to
\* the last index size-1), by the integration branch, is the arithmetic mean
\* of all size bins of the curve.
C17_FullRangeIsMeanOfAllBins ==
    (ValueQueried /\ query.bin0 = 0 /\ query.bin1 = (GetProcessedSize - 1) * Unit) =>
        /\ query.branch = "integrate"
        /\ query.value = FloatDiv(SumBins(0, GetProcessedSize - 1) * Unit,
                                  GetProcessedSize)

\* C17, amended: GetProcessedValue over the range from index 0 to the last
\* index size-1, by the integration branch, is the arithmetic mean of the
\* bins 0..size-2: the last bin is read with weight 0.
C17_FullRangeIsMeanOfAllButLast ==
    (ValueQueried /\ query.bin0 = 0 /\ query.bin1 = (GetProcessedSize - 1) * Unit) =>
        /\ query.branch = "integrate"
        /\ query.reads = 0..(GetProcessedSize - 1)
        /\ query.value = FloatDiv(SumBins(0, GetProcessedSize - 2) * Unit,
                                  GetProcessedSize - 1)

\* the full range asked of a curve whose last bin is not 0
C17_Witness ==
    /\ ValueQueried
    /\ query.bin0 = 0
    /\ query.bin1 = (GetProcessedSize - 1) * Unit
    /\ GetProcessedSize = 16
    /\ mProcessed[GetProcessedSize - 1] # 0
    /\ query.value # 0

\* a FindPeak has been made of what the analyst holds
PeakSought == query.op = "FindPeak"

\* the sample at index i is strictly greater than both its neighbours
LocalMaximum(i) ==
    mProcessed[i] > mProcessed[i - 1] /\ mProcessed[i] > mProcessed[i + 1]

\* C18: every candidate FindPeak passes to the cubic maximisation is a true
\* local maximum of the curve: when the scan (bin = 3 .. size-2) flags a
\* candidate at bin, the sample at bin-1 is strictly greater than both its
\* neighbours at bin-2 and bin, at the first scanned bin (3) as at the later
\* ones. The code enters the scan at bin 3 with up = mProcessed[1] >
\* mProcessed[0], which says nothing of bin 2 against bin 1, so this does not
\* hold of a curve that peaks at bin 1.
C18_CandidatesAreLocalMaxima ==
    PeakSought =>
        \A i \in 1..Len(query.candidates) :
            LocalMaximum(query.candidates[i].bin - 1)

\* a candidate flagged at bin 3 although bin 2 lies below bin 1
C18_Witness ==
    /\ PeakSought
    /\ Len(query.candidates) >= 1
    /\ query.candidates[1].bin = 3
    /\ mProcessed[2] < mProcessed[1]
    /\ mProcessed[1] > mProcessed[0]

\* the candidates whose position exceeds the position asked for
Overshoots ==
    {i \in 1..Len(query.candidates) :
        query.candidates[i].finite /\ query.candidates[i].thispeak > query.xPos}

\* the candidates up to and including the first that overshoots, all of them
\* if none does; those whose position is no number are left aside
UpToFirstOvershoot ==
    {i \in 1..Len(query.candidates) :
        /\ query.candidates[i].finite
        /\ \A k \in Overshoots : i <= k}

\* C19: FindPeak scans the candidates from left to right and stops at the
\* first whose converted position exceeds queryPosition; the pair it returns
\* is the candidate of least absolute distance to queryPosition among those up
\* to and including that first overshooting one (among all if none
\* overshoots); no candidate after the first overshoot is returned. The code
\* leaves the scan only at an overshooting candidate that is also closer than
\* the best so far, and its best distance starts at 1000000, so this does
\* not hold.
C19_NearestUpToFirstOvershoot ==
    PeakSought =>
        /\ \A k \in Overshoots : Len(query.candidates) <= k
        /\ UpToFirstOvershoot # {} =>
             \E i \in UpToFirstOvershoot :
                /\ query.peak = query.candidates[i].thispeak
                /\ query.value = query.candidates[i].valueAtMax
                /\ \A j \in UpToFirstOvershoot :
                      Abs(query.candidates[i].thispeak - query.xPos)
                          <= Abs(query.candidates[j].thispeak - query.xPos)

\* a peak sought further than 1000000 from every candidate: none is kept
\* and the zero pair is returned
C19_Witness ==
    /\ PeakSought
    /\ query.xPos = 2 * FarAway * Unit
    /\ Len(query.candidates) >= 1
    /\ \A i \in 1..Len(query.candidates) :
          query.candidates[i].finite => query.candidates[i].valueAtMax # 0
    /\ \E i \in 1..Len(query.candidates) : query.candidates[i].finite
    /\ query.peak = 0
    /\ query.value = 0

\* C20: if the curve has no local maximum in the scanned range, or there is
\* no curve, FindPeak returns position 0 and writes value 0, whatever the
\* position asked for. The candidate the code flags at bin 3 from the first
\* two bins (see C18) is returned where the curve has no local maximum in
\* the range, so this does not hold.
C20_NoMaximumGivesZeroPair ==
    (PeakSought /\ \A i \in 2..(GetProcessedSize - 3) : ~LocalMaximum(i)) =>
        query.peak = 0 /\ query.value = 0

\* a curve that peaks at bin 1 and has no local maximum at bins 2..size-3,
\* and a peak returned all the same
C20_Witness ==
    /\ PeakSought
    /\ GetProcessedSize = MinWindowSize \div 2
    /\ \A i \in 2..(GetProcessedSize - 3) : ~LocalMaximum(i)
    /\ Len(query.candidates) = 1
    /\ query.candidates[1].bin = 3
    /\ query.peak # 0
    /\ query.value # 0

\* a CubicInterpolate / a CubicMaximize has been made of the arguments drawn
Interpolated == query.op = "CubicInterpolate"
Maximized == query.op = "CubicMaximize"

C22_CubicThroughFourPoints ==
    /\ Interpolated =>
          /\ query.x = 0 => query.value = query.y0 * Unit
          /\ query.x = Unit => query.value = query.y1 * Unit
          /\ query.x = 2 * Unit => query.value = query.y2 * Unit
          /\ query.x = 3 * Unit => query.value = query.y3 * Unit
    /\ (Maximized /\ query.result.finite /\ query.result.written) =>
          query.result.max = CubicInterpolate(query.y0, query.y1, query.y2,
                                              query.y3, query.result.x)

\* four samples all different, evaluated at the third point
C22_Witness ==
    /\ Interpolated
    /\ query.y0 = 0 /\ query.y1 = 10 /\ query.y2 = 11 /\ query.y3 = 30
    /\ query.x = 2 * Unit
    /\ query.value = 11 * Unit

\* three times the second derivative of the cubic at x, halved: 3a x + b,
\* six-fold and in units of 1/Unit
HalfCurvature(y0, y1, y2, y3, x) ==
    3 * CubicA(y0, y1, y2, y3) * x + CubicB(y0, y1, y2, y3) * Unit

\* x is, to the grain of the grid, the root of the derivative at which the
\* second derivative is not positive: there 3a x + b = -sqrt(b*b - 3ac)
IsMaximumRoot(y0, y1, y2, y3, x) ==
    LET h == HalfCurvature(y0, y1, y2, y3, x)
        slack == 3 * Abs(CubicA(y0, y1, y2, y3)) + 1
    IN  /\ h <= slack
        /\ Abs(-h - Sqrt(Discriminant(y0, y1, y2, y3) * Unit * Unit)) <= slack

\* C23: CubicMaximize returns the sentinel position -1, and leaves *max
\* untouched, exactly when the discriminant of the derivative is negative;
\* otherwise it returns the root of the derivative at which the second
\* derivative is negative and writes the value of the cubic at that root.
\* The code divides by 2 * da, which is zero when the four samples lie on a
\* parabola or a line, so this does not hold of such samples.
C23_SentinelIffNegativeDiscriminant ==
    Maximized =>
        LET disc == Discriminant(query.y0, query.y1, query.y2, query.y3)
        IN  /\ disc < 0 <=> (query.result.x = -Unit /\ ~query.result.written)
            /\ disc >= 0 =>
                  /\ query.result.finite
                  /\ query.result.written
                  /\ IsMaximumRoot(query.y0, query.y1, query.y2, query.y3,
                                   query.result.x)
                  /\ query.result.max =
                        CubicValue(query.y0, query.y1, query.y2, query.y3,
                                   query.result.x)

\* the samples 0, 3, 4, 3 of the parabola -x*x + 4x, whose maximum is at 2:
\* what is returned is no number
C23_Witness ==
    /\ Maximized
    /\ query.y0 = 0 /\ query.y1 = 3 /\ query.y2 = 4 /\ query.y3 = 3
    /\ Discriminant(query.y0, query.y1, query.y2, query.y3) >= 0
    /\ ~query.result.finite

\* the four samples rise strictly
Rising == query.y0 < query.y1 /\ query.y1 < query.y2 /\ query.y2 < query.y3

C26_WindowCountAtLeastOne ==
    Called =>
        /\ ret => (windows >= 1 /\ lastReq.dataLen >= lastReq.windowSize)
        /\ lastReq.dataLen < lastReq.windowSize => (~ret /\ windows = 0)

\* a buffer of exactly one window: the one window is counted
C26_Witness ==
    /\ Called
    /\ ret
    /\ lastReq.dataLen = lastReq.windowSize
    /\ windows = 1
    /\ starts = <<0>>

\* C27: after every successful Calculate the curve storage has the length
\* windowSize and its upper half (indices windowSize/2 .. windowSize-1) holds
\* zeros only, whatever the algorithm; and neither GetProcessedValue nor
\* FindPeak on that curve reads an index >= windowSize/2.
C27_UpperHalfZeroAndUnread ==
    ret =>
        /\ Size(mProcessed) = mWindowSize
        /\ \A i \in (mWindowSize \div 2)..(mWindowSize - 1) : mProcessed[i] = 0
        /\ (ValueQueried \/ PeakSought) =>
              \A i \in query.reads : i < mWindowSize \div 2

\* a range that ends beyond a cepstrum: the last bin of the lower half is
\* read, and it is not zero
C27_Witness ==
    /\ ret
    /\ mAlg = Cepstrum
    /\ ValueQueried
    /\ query.bin1 > mWindowSize * Unit
    /\ (mWindowSize \div 2 - 1) \in query.reads
    /\ mProcessed[mWindowSize \div 2 - 1] # 0

\* C28: after every successful Calculate, whatever the algorithm and the
\* curve, the minimum reported is less than or equal to the maximum reported.
\* The Spectrum scan leaves the minimum at its sentinel 1000000 on a curve
\* that rises from bin to bin (see C8), so this does not hold.
C28_MinAtMostMax == ret => yMin <= yMax

\* a successful Spectrum Calculate that reports a minimum above its maximum
C28_Witness ==
    /\ ret
    /\ lastReq.alg = Spectrum
    /\ lastReq.data = "rising"
    /\ yMin > yMax
    /\ yMax > InitialYMax

\* candidate i of the FindPeak made is one for which CubicMaximize returned
\* the sentinel -1 and wrote no value
Sentinel(i) ==
    query.candidates[i].finite /\ ~query.candidates[i].written

\* C29: FindPeak never returns a peak derived from a degenerate result of
\* CubicMaximize: a candidate for which CubicMaximize returned the sentinel -1
\* (negative discriminant) is not taken as the best peak, and FindPeak does
\* not report the position leftbin - 1 with the value 0 for it. The code adds
\* what CubicMaximize returns to leftbin untested, so this does not hold.
C29_SentinelNeverTaken ==
    PeakSought =>
        \A i \in 1..Len(query.candidates) :
            Sentinel(i) =>
                /\ ~query.candidates[i].taken
                /\ ~(/\ query.peak = query.candidates[i].thispeak
                     /\ query.value = 0
                     /\ query.broke = query.candidates[i].bin)

\* the candidate flagged at bin 3 of a curve that falls from bin 1 on: the
\* sentinel makes the position leftbin - 1 = 0, which is taken with value 0
C29_Witness ==
    /\ PeakSought
    /\ Len(query.candidates) >= 1
    /\ query.candidates[1].bin = 3
    /\ Sentinel(1)
    /\ query.candidates[1].taken
    /\ query.candidates[1].thispeak = 0
    /\ query.peak = 0
    /\ query.value = 0

\* C30: in every interleaving of the dialog's events (show, size, algorithm
\* and function choice, replot, the pending recalc event, paint), PlotPaint
\* and DrawPlot ask the analyst for values only while GetProcessedSize() > 0;
\* a paint after OnSizeChoice or OnReplot changed mWindowSize or mData, but
\* before the pending recalc ran, does not query an empty curve. PlotPaint
\* tests the data alone, not the analyst, so this does not hold.
C30_QueriesOnlyOfACurve ==
    dialog.drawn.queried => dialog.drawn.size > 0

\* PlotPaint asked the empty analyst for a peak and a value while the recalc
\* that OnReplot or OnSizeChoice sent was still queued
C30_Witness ==
    /\ dialog.drawn.by = "PlotPaint"
    /\ dialog.drawn.queried
    /\ dialog.drawn.size = 0
    /\ dialog.pending > 0
    /\ ~ret

\* the last Calculate made the Spectrum of a pure sine
SineAnalysed == ret /\ lastReq.alg = Spectrum /\ lastReq.data \in SineSignals

\* the maximum of the curve and the lowest bin that attains it
CurveMaximum == SetMax(Bins)
MaxBin ==
    SetMin({i \in 0..(GetProcessedSize - 1) : mProcessed[i] = CurveMaximum})

\* bin i is within one bin of f * windowSize / sampleRate for the sine
\* analysed, f / sampleRate being b / 128
WithinOneBin(i) ==
    Abs(SineTableSize * i - SineOf(lastReq.data) * lastReq.windowSize)
        <= SineTableSize

\* C25: for a pure sine of frequency f in [0, sampleRate/2) the curve of the
\* Spectrum algorithm has its maximum bin within one bin of
\* f * windowSize / sampleRate.
C25_SineMaximumAtItsBin ==
    SineAnalysed => WithinOneBin(MaxBin)

\* a sine between two bins, of more than one frame, whose maximum is at one
\* of the two
C25_Witness ==
    /\ SineAnalysed
    /\ lastReq.data = "sine22"
    /\ windows = 3
    /\ MaxBin \in {5, 6}
    /\ mProcessed[11] < CurveMaximum

====
